---- MODULE Spec2Model ----
(***************************************************************************)
(* A model of the marble image endpoint (src/src/endpoints/marbleImage.ts). *)
(*                                                                         *)
(* 32-bit words.  JavaScript's bit operators and Math.imul work on 32-bit  *)
(* integers.  A word is modelled as the pair <<hi, lo>> of its two 16-bit  *)
(* halves, so that every intermediate value of the model stays below 2^31. *)
(***************************************************************************)
EXTENDS Integers, Sequences, FiniteSets, TLC

B16 == 256 * 256

Half == 0..(B16 - 1)

\* the 32-bit words
Word == Half \X Half

RECURSIVE Pow2(_)
Pow2(n) == IF n = 0 THEN 1 ELSE 2 * Pow2(n - 1)

\* Bitwise exclusive or / inclusive or of two n-bit naturals.
RECURSIVE XorBits(_, _, _)
XorBits(a, b, n) ==
    IF n = 0 THEN 0
    ELSE ((a + b) % 2) + 2 * XorBits(a \div 2, b \div 2, n - 1)

RECURSIVE OrBits(_, _, _)
OrBits(a, b, n) ==
    IF n = 0 THEN 0
    ELSE (IF (a % 2) + (b % 2) > 0 THEN 1 ELSE 0) + 2 * OrBits(a \div 2, b \div 2, n - 1)

XorNibble == [a \in 0..15 |-> [b \in 0..15 |-> XorBits(a, b, 4)]]
OrNibble == [a \in 0..15 |-> [b \in 0..15 |-> OrBits(a, b, 4)]]

Xor16[a \in Half, b \in Half] ==
    XorNibble[a % 16][b % 16] + 16 * XorNibble[(a \div 16) % 16][(b \div 16) % 16]
    + 256 * XorNibble[(a \div 256) % 16][(b \div 256) % 16]
    + 4096 * XorNibble[a \div 4096][b \div 4096]

Or16[a \in Half, b \in Half] ==
    OrNibble[a % 16][b % 16] + 16 * OrNibble[(a \div 16) % 16][(b \div 16) % 16]
    + 256 * OrNibble[(a \div 256) % 16][(b \div 256) % 16]
    + 4096 * OrNibble[a \div 4096][b \div 4096]

\* x ^ y
XorW[x \in Word, y \in Word] == <<Xor16[x[1], y[1]], Xor16[x[2], y[2]]>>

\* x | y
OrW[x \in Word, y \in Word] == <<Or16[x[1], y[1]], Or16[x[2], y[2]]>>

\* x >>> n
ShrW[x \in Word, n \in 1..31] ==
    IF n >= 16
    THEN <<0, x[1] \div Pow2(n - 16)>>
    ELSE <<x[1] \div Pow2(n), (x[2] \div Pow2(n)) + (x[1] % Pow2(n)) * Pow2(16 - n)>>

\* x << n
ShlW[x \in Word, n \in 1..15] ==
    <<((x[1] % Pow2(16 - n)) * Pow2(n)) + (x[2] \div Pow2(16 - n)),
      (x[2] % Pow2(16 - n)) * Pow2(n)>>

\* (x + y) mod 2^32
AddW[x \in Word, y \in Word] ==
    <<(x[1] + y[1] + ((x[2] + y[2]) \div B16)) % B16, (x[2] + y[2]) % B16>>

\* a * b for 16-bit a, b, as the word <<high half, low half>> of the product
Mul16[a \in Half, b \in Half] ==
    LET p0 == a * (b % 256)
        p1 == a * (b \div 256)
        lo == p0 + (p1 % 256) * 256
    IN  <<(p1 \div 256) + (lo \div B16), lo % B16>>

\* Math.imul(x, y): the low 32 bits of the product
Imul[x \in Word, y \in Word] ==
    <<(Mul16[x[2], y[2]][1] + Mul16[x[1], y[2]][2] + Mul16[x[2], y[1]][2]) % B16,
      Mul16[x[2], y[2]][2]>>

(***************************************************************************)
(* xmur3 (string -> 32-bit seed) and mulberry32 (seed -> stream of draws). *)
(* A string is the sequence of its UTF-16 code units.                      *)
(***************************************************************************)
\* one round of the loop of xmur3 (lines 24-25) for the code unit c, in two
\* halves: h = Math.imul(h ^ c, 3432918353); h = (h << 13) | (h >>> 19)
Xmur3Mul[h \in Word, c \in Half] == Imul[XorW[h, <<0, c>>], <<52382, 11601>>]
Xmur3Rot[h \in Word] == OrW[ShlW[h, 13], ShrW[h, 19]]

\* h after the first n rounds of the loop; 1779033703 is <<27145, 58983>>
RECURSIVE Xmur3Fold(_, _)
Xmur3Fold(str, n) ==
    IF n = 0 THEN XorW[<<27145, 58983>>, <<0, Len(str)>>]
    ELSE Xmur3Rot[Xmur3Mul[Xmur3Fold(str, n - 1), str[n]]]

\* the three statements of the closure xmur3 returns (lines 28-30)
Xmur3Mix1[h \in Word] == Imul[XorW[h, ShrW[h, 16]], <<34283, 51819>>]   \* 2246822507
Xmur3Mix2[h \in Word] == Imul[XorW[h, ShrW[h, 13]], <<49842, 44597>>]   \* 3266489909
Xmur3Mix3[h \in Word] == XorW[h, ShrW[h, 16]]

\* xmur3(str)(): the first value the returned closure yields
Xmur3[str \in Seq(Half)] == Xmur3Mix3[Xmur3Mix2[Xmur3Mix1[Xmur3Fold(str, Len(str))]]]

\* a += 0x6d2b79f5.  The source keeps a as an unwrapped Number; every use of
\* it goes through a 32-bit operator, so only a mod 2^32 is observable.
Mulberry32Advance(a) == AddW[a, <<27947, 31221>>]

\* the three statements that turn the advanced accumulator into the draw
\* (lines 37-39)
Mulberry32Mix1[t \in Word] == Imul[XorW[t, ShrW[t, 15]], OrW[t, <<0, 1>>]]
Mulberry32Mix2[t \in Word] ==
    XorW[t, AddW[t, Imul[XorW[t, ShrW[t, 7]], OrW[t, <<0, 61>>]]]]
Mulberry32Mix3[t \in Word] == XorW[t, ShrW[t, 14]]

\* The numerator u of the draw u / 4294967296 that mulberry32 returns once
\* its accumulator has been advanced to a.
Mulberry32Out(a) == Mulberry32Mix3[Mulberry32Mix2[Mulberry32Mix1[a]]]

\* String(n) for an integer n >= 0, as code units ("0" is 48)
RECURSIVE Digits(_)
Digits(n) == IF n < 10 THEN <<48 + n>> ELSE Append(Digits(n \div 10), 48 + (n % 10))

(***************************************************************************)
(* Draws.  rand() returns u / 2^32 for the 32-bit word u; a draw is kept   *)
(* as u.  The arithmetic the source does on a draw is IEEE double          *)
(* arithmetic; the operators below compute the same results on integers.   *)
(***************************************************************************)
\* Math.floor(rand() * k) for an integer 0 < k < 2^15 (the product is exact)
ScaleDraw(u, k) == (k * u[1] + ((k * u[2]) \div B16)) \div B16

\* whether rand() * k is an integer
ScaleIsExact(u, k) ==
    /\ (k * u[2]) % B16 = 0
    /\ (k * u[1] + ((k * u[2]) \div B16)) % B16 = 0

\* (A + rand() * B) scaled to an integer and rounded half up, with twoA = 2A
\* and twoB = 2B in the units of the result
RoundAffine(twoA, twoB, u) == (twoA + 1 + ScaleDraw(u, twoB)) \div 2

\* Number.prototype.toFixed of A + rand() * B (or of a product of it), in
\* units of the last digit kept.  toFixed rounds the double's exact value
\* half up; the double differs from the real value by less than 2^-50,
\* which matters only where the real value is an exact decimal tie.  down
\* holds the high halves of the draws (low half 0) at which the double lies
\* below the tie, so that the digit is one less than the real rounding.
ToFixed(twoA, twoB, u, down) ==
    RoundAffine(twoA, twoB, u) - (IF u[2] = 0 /\ u[1] \in down THEN 1 ELSE 0)

\* Math.round(A + rand() * B): the sum is exact in double arithmetic
MathRound(twoA, twoB, u) == RoundAffine(twoA, twoB, u)

NoValue == "undefined"

colorPairs ==
    [white |-> [base |-> "#ffffff", vein |-> "#0a0a0a"],
     black |-> [base |-> "#0b0b0b", vein |-> "#d4af37"],
     blue  |-> [base |-> "#1e3a8a", vein |-> "#7c3aed"],
     red   |-> [base |-> "#7f1d1d", vein |-> "#111111"]]

\* getDimensions without its portrait case
getDimensionsLandscape(size) ==
    CASE size = "1:1" -> [width |-> 1000, height |-> 1000]
      [] OTHER        -> [width |-> 1600, height |-> 900]

getDimensions(size) ==
    CASE size = "16:9" -> [width |-> 1600, height |-> 900]
      [] size = "9:16" -> [width |-> 900, height |-> 1600]
      [] OTHER         -> [width |-> 1000, height |-> 1000]

\* the state of a stream mulberry32(seed): its accumulator a, and the
\* number n of draws made from it
RngState == [a : Word, n : Nat]

\* rand(): the stream after the call, and the draw the call returns
Rand(s) ==
    [rng |-> [a |-> Mulberry32Advance(s.a), n |-> s.n + 1],
     u   |-> Mulberry32Out(Mulberry32Advance(s.a))]

\* The formatted anisotropic frequencies, in units of 0.0001; baseFreq is
\* the draw u of 0.005 + rand() * 0.01.
WarpFx(baseFreq)  == ToFixed(35, 70, baseFreq, {0})
WarpFy(baseFreq)  == ToFixed(140, 280, baseFreq, {8192, 57344})
VeinFx(baseFreq)  ==
    ToFixed(160, 320, baseFreq,
            {3072, 5120, 29696, 37888, 39936, 41984, 60416, 62464})
VeinFy(baseFreq)  == ToFixed(90, 180, baseFreq, {16384})
WarpFx2(baseFreq) == ToFixed(45, 90, baseFreq, {})
WarpFy2(baseFreq) == ToFixed(120, 240, baseFreq, {4096, 20480, 36864, 45056, 61440})
VeinFx2(baseFreq) == ToFixed(130, 260, baseFreq, {16384})
VeinFy2(baseFreq) == ToFixed(100, 200, baseFreq, {40960})

\* The vein opacities, in units of 0.01
VeinOpacity1(color, u) ==
    IF color = "black" THEN ToFixed(70, 20, u, {49152})
    ELSE IF color = "white" THEN ToFixed(70, 30, u, {32768})
    ELSE ToFixed(44, 20, u, {16384})

VeinOpacity2(color, u) ==
    IF color = "black" THEN ToFixed(40, 16, u, {36864})
    ELSE IF color = "white" THEN ToFixed(36, 20, u, {16384})
    ELSE ToFixed(20, 16, u, {45056, 61440})

\* entry i of the threshold table: with x = i / 63 and phase = (x * pulses) % 1,
\* |phase - 0.5| * 2 = k / 63 for k = |2 * ((i * pulses) mod 63) - 63|, and the
\* entry is on when k / 63 < 0.12 + rand() * 0.06, i.e. 100 k - 756 < 378 rand()
TableEntry(i, pulses, uWidth) ==
    LET k == IF 2 * ((i * pulses) % 63) >= 63
             THEN 2 * ((i * pulses) % 63) - 63
             ELSE 63 - 2 * ((i * pulses) % 63)
        N == 100 * k - 756
        on == \/ N < 0
              \/ ScaleDraw(uWidth, 378) > N
              \/ ScaleDraw(uWidth, 378) = N /\ ~ScaleIsExact(uWidth, 378)
    IN  IF on THEN "1" ELSE "0"

Entries == 64

\* tableValues: the entries, in order (the source joins them with spaces)
TableValues(uPulses, uWidth) ==
    LET pulses == 10 + ScaleDraw(uPulses, 6)
    IN  [j \in 1..Entries |-> TableEntry(j - 1, pulses, uWidth)]

\* an exponent drawn from the wider band 2.2 + rand() * 1.6
GammaExponentWide(u) == ToFixed(440, 320, u, {})

\* exponent of a gamma curve (2.2 + rand() * 1.5).toFixed(2), in units of 0.01
GammaExponent(u) == ToFixed(440, 300, u, {})

\* floor(rand() * 4096)
SeedNoise(u) == ScaleDraw(u, 4096)

\* the seeds with the offsets added and never reduced modulo 4096
TurbulenceSeedsUnwrapped(seedNoise) ==
    [warp1 |-> seedNoise,
     vein1 |-> seedNoise + 137,
     warp2 |-> seedNoise + 251,
     vein2 |-> seedNoise + 587]

\* the four turbulence seeds of a document
TurbulenceSeeds(seedNoise) ==
    [warp1 |-> seedNoise,
     vein1 |-> (seedNoise + 137) % 4096,
     warp2 |-> (seedNoise + 251) % 4096,
     vein2 |-> (seedNoise + 587) % 4096]

(***************************************************************************)
(* The calls of rand() in handle, in the order in which they are executed: *)
(* lines 106-110 and 115-124, the table (140-141), then the holes of the   *)
(* template in text order (188, 192-203, 213-219, 236, 244-250).  Each is  *)
(* named after the value it yields.  Either branch of the opacity choices  *)
(* (115-124) holds exactly one call.                                       *)
(***************************************************************************)
\* the same calls with the table built before the opacities are chosen
StatementsTableFirst ==
    <<"baseFreq", "octaves", "seedNoise", "rotate", "contrast",
      "pulses", "widthFrac", "veinOpacity1", "veinOpacity2",
      "veinOctaves", "gammaR", "gammaG", "gammaB", "scale", "blur",
      "veinOctaves2", "scale2", "blur2">>

Statements ==
    <<"baseFreq", "octaves", "seedNoise", "rotate", "contrast",
      "veinOpacity1", "veinOpacity2", "pulses", "widthFrac",
      "veinOctaves", "gammaR", "gammaG", "gammaB", "scale", "blur",
      "veinOctaves2", "scale2", "blur2">>

Names == {Statements[k] : k \in 1..Len(Statements)}

\* a generation under way: the seed, the stream, the draw each call of rand()
\* executed so far has returned, and the draws made so far in order
Env == [seed : Word, rng : RngState, draw : [Names -> Word], stream : Seq(Word)]

\* const rand = mulberry32(seed)
NewEnv(seed) ==
    [seed |-> seed, rng |-> [a |-> seed, n |-> 0],
     draw |-> [x \in Names |-> <<0, 0>>], stream |-> <<>>]

\* what a call of rand() leaves: the stream after it, and the draw returned
RandResult == [rng : RngState, u : Word]

\* the value out.u that a call of rand() returned is used in the place name
Store[env \in Env, name \in Names, out \in RandResult] ==
    [seed   |-> env.seed,
     rng    |-> out.rng,
     draw   |-> [env.draw EXCEPT ![name] = out.u],
     stream |-> Append(env.stream, out.u)]

\* the call of rand() named name
Exec[env \in Env, name \in Names] == Store[env, name, Rand(env.rng)]

\* the first k calls of rand(), in the order stmts
RECURSIVE Run(_, _, _)
Run(seed, stmts, k) ==
    IF k = 0 THEN NewEnv(seed) ELSE Exec[Run(seed, stmts, k - 1), stmts[k]]

\* the local variables of handle computed from draws (lines 106-124, 140-141);
\* baseFreq, contrast and widthFrac are doubles never printed themselves and
\* are kept as their draws: 0.005 + rand() * 0.01, 0.6 + rand() * 0.6 and
\* 0.12 + rand() * 0.06
Locals(draw, color) ==
    [baseFreq     |-> draw["baseFreq"],
     octaves      |-> 3 + ScaleDraw(draw["octaves"], 3),
     seedNoise    |-> SeedNoise(draw["seedNoise"]),
     rotate       |-> ScaleDraw(draw["rotate"], 360),
     contrast     |-> draw["contrast"],
     veinOpacity1 |-> VeinOpacity1(color, draw["veinOpacity1"]),
     veinOpacity2 |-> VeinOpacity2(color, draw["veinOpacity2"]),
     tableValues  |-> TableValues(draw["pulses"], draw["widthFrac"])]

\* the declared output size (lines 157-174)
OutputSize(resolution, size, width, height) ==
    CASE resolution = "4k" ->
           IF size = "16:9" THEN [width |-> 3840, height |-> 2160]
           ELSE IF size = "9:16" THEN [width |-> 2160, height |-> 3840]
           ELSE [width |-> 3840, height |-> 3840]
      [] resolution = "2k" ->
           IF size = "16:9" THEN [width |-> 2560, height |-> 1440]
           ELSE IF size = "9:16" THEN [width |-> 1440, height |-> 2560]
           ELSE [width |-> 2048, height |-> 2048]
      [] resolution = "8k" ->
           IF size = "16:9" THEN [width |-> 7680, height |-> 4320]
           ELSE IF size = "9:16" THEN [width |-> 4320, height |-> 7680]
           ELSE [width |-> 7680, height |-> 7680]
      [] OTHER -> [width |-> width, height |-> height]

(***************************************************************************)
(* The SVG document (lines 176-269): the template's literal text is fixed, *)
(* so a document is the record of the values interpolated into it, in the  *)
(* scaled integer form of their decimal text.  p holds the locals and draw *)
(* the draws of the calls of rand() in the template's holes.               *)
(***************************************************************************)
BuildSvg(p, draw, color, size, resolution, sharp) ==
    [width |-> OutputSize(resolution, size, getDimensions(size).width,
                          getDimensions(size).height).width,
     height |-> OutputSize(resolution, size, getDimensions(size).width,
                           getDimensions(size).height).height,
     viewBox |-> <<0, 0, getDimensions(size).width, getDimensions(size).height>>,
     warpFreq  |-> <<WarpFx(p.baseFreq), WarpFy(p.baseFreq)>>,
     octaves   |-> p.octaves,
     warpSeed  |-> TurbulenceSeeds(p.seedNoise).warp1,
     veinFreq  |-> <<VeinFx(p.baseFreq), VeinFy(p.baseFreq)>>,
     veinOctaves |-> 2 + ScaleDraw(draw["veinOctaves"], 2),
     veinSeed  |-> TurbulenceSeeds(p.seedNoise).vein1,
     gamma     |-> <<GammaExponent(draw["gammaR"]), GammaExponent(draw["gammaG"]),
                     GammaExponent(draw["gammaB"])>>,
     tableValues |-> p.tableValues,
     scale     |-> MathRound(80, 160, draw["scale"]),
     blur      |-> ToFixed(160, 160, draw["blur"], {}),
     warpFreq2 |-> <<WarpFx2(p.baseFreq), WarpFy2(p.baseFreq)>>,
     warpSeed2 |-> TurbulenceSeeds(p.seedNoise).warp2,
     veinFreq2 |-> <<VeinFx2(p.baseFreq), VeinFy2(p.baseFreq)>>,
     veinOctaves2 |-> 2 + ScaleDraw(draw["veinOctaves2"], 2),
     veinSeed2 |-> TurbulenceSeeds(p.seedNoise).vein2,
     scale2    |-> MathRound(110, 130, draw["scale2"]),
     blur2     |-> ToFixed(140, 220, draw["blur2"], {16384, 49152}),
     group     |-> IF sharp THEN "<g filter=\"url(#postsharp)\">" ELSE "<g>",
     base      |-> colorPairs[color].base,
     vein      |-> colorPairs[color].vein,
     opacity1  |-> p.veinOpacity1,
     opacity2  |-> p.veinOpacity2]

\* new Date(datetime).getTime() for the datetime 1970-01-01T00:00:SS.mmmZ,
\* kept as the record [s |-> SS, ms |-> mmm] of its fields
DateGetTime(datetime) == datetime.s * 1000 + datetime.ms

\* `${username ?? ""}${ts}`; username is <<>> when undefined, else <<string>>
SeedStr(username, ts) ==
    (IF username = <<>> THEN <<>> ELSE username[1]) \o Digits(ts)

\* the target size of the rasterization (lines 276-283); scale is
\* Math.min(maxDim / targetW, maxDim / targetH) = maxDim / max(targetW, targetH),
\* and the floors of the double products equal those of the exact ones for
\* every size of the output table
maxDim == 4096

\* the target size with Math.max in the place of Math.min (line 280)
TargetSizeMax(outW, outH) ==
    IF outW > maxDim \/ outH > maxDim
    THEN LET den == IF outW >= outH THEN outH ELSE outW
             fw  == (outW * maxDim) \div den
             fh  == (outH * maxDim) \div den
         IN  [w |-> IF fw > 1 THEN fw ELSE 1, h |-> IF fh > 1 THEN fh ELSE 1]
    ELSE [w |-> outW, h |-> outH]

TargetSize(outW, outH) ==
    IF outW > maxDim \/ outH > maxDim
    THEN LET den == IF outW >= outH THEN outW ELSE outH
             fw  == (outW * maxDim) \div den
             fh  == (outH * maxDim) \div den
         IN  [w |-> IF fw > 1 THEN fw ELSE 1, h |-> IF fh > 1 THEN fh ELSE 1]
    ELSE [w |-> outW, h |-> outH]

(***************************************************************************)
(* The worker.  A slot is one call of MarbleImage.handle.  JavaScript runs *)
(* a handler to completion between its awaits, so an action is the code    *)
(* between two awaits of handle: other calls interleave only there.        *)
(***************************************************************************)
VARIABLES
    clock,      \* Date.now()
    wasmReady,  \* whether initWasm has resolved in this worker instance
    phase,      \* per slot: where the call of handle stands
    query,      \* per slot: the validated query, <<q>> once received
    gen,        \* per slot: the locals of the generation, <<g>> once run
    raster,     \* per slot: the arguments of new Resvg(...), <<a>> once called
    resp,       \* per slot: the Response returned, <<r>> once returned
    trace,      \* per slot: the calls made so far, in order
    probe       \* the draw under test of the parameter specifications

vars == <<clock, wasmReady, phase, query, gen, raster, resp, trace, probe>>

Slots == {1, 2}

MaxClock == 1

\* an optional field: <<>> when absent, <<v>> when v is given
Usernames == {<<>>, <<<<97, 108>>>>}
Datetimes == {<<>>, <<[s |-> 0, ms |-> 1]>>}
Colors == {"white", "black", "blue", "red"}
Sizes == {"16:9", "9:16", "1:1"}
Resolutions == {NoValue, "native", "2k", "4k", "8k"}
Sharps == {NoValue, "true", "false"}
Types == {NoValue, "svg", "png"}

\* the queries MarbleQuery lets through, with the output type handle reads
Queries ==
    [color : Colors, datetime : Datetimes, username : Usernames, size : Sizes,
     resolution : Resolutions, sharp : Sharps, type : Types]

\* the queries of the two-call specification
PairQueries ==
    [color : {"black", "blue"}, datetime : Datetimes, username : Usernames,
     size : {"1:1"}, resolution : {NoValue}, sharp : {NoValue},
     type : {NoValue, "png"}]

SvgHeaders ==
    {<<"Content-Type", "image/svg+xml">>,
     <<"Content-Disposition", "attachment; filename=\"marble.svg\"">>}

PngHeaders ==
    {<<"Content-Type", "image/png">>,
     <<"Cache-Control", "no-store">>,
     <<"Content-Disposition", "attachment; filename=\"marble.png\"">>}

FallbackHeaders == SvgHeaders \cup {<<"X-Marble-PNG-Fallback", "true">>}

\* the body of an SVG response, and of a PNG response: what the rasterizer
\* made of the arguments args of new Resvg(...)
SvgBody(svg) == [type |-> "svg", svg |-> svg, fitTo |-> <<>>]
PngBody(args) == [type |-> "png", svg |-> args.svg, fitTo |-> <<args.fitTo>>]

Init ==
    /\ clock = 0
    /\ wasmReady = FALSE
    /\ phase = [r \in Slots |-> "idle"]
    /\ query = [r \in Slots |-> <<>>]
    /\ gen = [r \in Slots |-> <<>>]
    /\ raster = [r \in Slots |-> <<>>]
    /\ resp = [r \in Slots |-> <<>>]
    /\ trace = [r \in Slots |-> <<>>]
    /\ probe = <<>>

\* time passes
Tick ==
    /\ clock < MaxClock
    /\ clock' = clock + 1
    /\ UNCHANGED <<wasmReady, phase, query, gen, raster, resp, trace, probe>>

\* handle is called and awaits getValidatedData (lines 81-82)
Receive(r, q) ==
    /\ phase[r] = "idle"
    /\ phase' = [phase EXCEPT ![r] = "validating"]
    /\ query' = [query EXCEPT ![r] = <<q>>]
    /\ trace' = [trace EXCEPT ![r] = <<"handle">>]
    /\ UNCHANGED <<clock, wasmReady, gen, raster, resp, probe>>

\* a timestamp that is always the clock's
TimestampNow(q, now) == now

\* const ts = datetime ? new Date(datetime).getTime() : Date.now()
Timestamp(q, now) == IF q.datetime # <<>> THEN DateGetTime(q.datetime[1]) ELSE now

\* the locals of handle at line 270, once the calls of rand() have left env
Compose[env \in Env, q \in Queries, ts \in Nat] ==
    [ts       |-> ts,
     seedStr  |-> SeedStr(q.username, ts),
     seed     |-> env.seed,
     rotate   |-> Locals(env.draw, q.color).rotate,
     contrast |-> Locals(env.draw, q.color).contrast,
     outType  |-> IF q.type = NoValue THEN "svg" ELSE q.type,
     svg      |-> BuildSvg(Locals(env.draw, q.color), env.draw, q.color, q.size,
                           IF q.resolution = NoValue THEN "native" ELSE q.resolution,
                           (IF q.sharp = NoValue THEN "false" ELSE q.sharp) = "true"),
     rand     |-> env.rng,
     draw     |-> env.draw,
     stream   |-> env.stream]

\* lines 83-269 for the query q at the time now
Generation(q, now) ==
    Compose[Run(Xmur3[SeedStr(q.username, Timestamp(q, now))], Statements,
                Len(Statements)),
            q, Timestamp(q, now)]

\* handle with the locals g at line 270: it returns the document (svg,
\* lines 310-315) or awaits initWasm (png, lines 271-274)
Return(r, g) ==
    /\ gen' = [gen EXCEPT ![r] = <<g>>]
    /\ IF g.outType = "png"
       THEN /\ phase' = [phase EXCEPT ![r] = "initWasm"]
            /\ trace' = [trace EXCEPT ![r] = @ \o <<"svg", "initWasm">>]
            /\ resp' = resp
       ELSE /\ phase' = [phase EXCEPT ![r] = "done"]
            /\ trace' = [trace EXCEPT ![r] = @ \o <<"svg", "Response">>]
            /\ resp' = [resp EXCEPT ![r] =
                          <<[headers |-> SvgHeaders, body |-> SvgBody(g.svg)]>>]

\* Generate with one stream for the whole module: a call draws on from where
\* the call before it stopped
GenerateShared(r) ==
    /\ phase[r] = "validating"
    /\ \E g \in {Compose[Run(IF \E s \in Slots : gen[s] # <<>>
                              THEN gen[CHOOSE s \in Slots : gen[s] # <<>>][1].rand.a
                              ELSE Xmur3[SeedStr(query[r][1].username,
                                                 Timestamp(query[r][1], clock))],
                              Statements, Len(Statements)),
                          query[r][1], Timestamp(query[r][1], clock)]} :
           Return(r, g)
    /\ UNCHANGED <<clock, wasmReady, query, raster, probe>>

\* the validated query arrives; handle runs on to its return (svg) or to the
\* await of initWasm (png) (lines 83-274, 310-315)
Generate(r) ==
    /\ phase[r] = "validating"
    /\ \E g \in {Generation(query[r][1], clock)} : Return(r, g)
    /\ UNCHANGED <<clock, wasmReady, query, raster, probe>>

\* the catch block without its marker header
FallbackUnmarked(svg) == [headers |-> SvgHeaders, body |-> SvgBody(svg)]

\* the catch block (lines 297-306)
Fallback(svg) == [headers |-> FallbackHeaders, body |-> SvgBody(svg)]

\* initWasm rejects: the await throws into the catch block
InitWasmRejects(r) ==
    /\ phase[r] = "initWasm"
    /\ phase' = [phase EXCEPT ![r] = "done"]
    /\ trace' = [trace EXCEPT ![r] = @ \o <<"initWasm throws", "Response">>]
    /\ resp' = [resp EXCEPT ![r] = <<Fallback(gen[r][1].svg)>>]
    /\ UNCHANGED <<clock, wasmReady, query, gen, raster, probe>>

\* what the rasterizer does after initWasm: one of its calls throws, or none
Outcomes == {"Resvg throws", "render throws", "asPng throws", "ok"}

\* the calls with one more attempt after render has thrown
RasterCallsRetry(outcome) ==
    CASE outcome = "Resvg throws"  -> <<"Resvg", "Resvg throws">>
      [] outcome = "render throws" ->
           <<"Resvg", "render", "render throws", "Resvg", "render", "asPng">>
      [] outcome = "asPng throws"  -> <<"Resvg", "render", "asPng", "asPng throws">>
      [] OTHER                     -> <<"Resvg", "render", "asPng">>

\* the calls of lines 284-289 up to the one that throws
RasterCalls(outcome) ==
    CASE outcome = "Resvg throws"  -> <<"Resvg", "Resvg throws">>
      [] outcome = "render throws" -> <<"Resvg", "render", "render throws">>
      [] outcome = "asPng throws"  -> <<"Resvg", "render", "asPng", "asPng throws">>
      [] OTHER                     -> <<"Resvg", "render", "asPng">>

\* the arguments of new Resvg(svg, {fitTo, background}) (lines 276-287), with
\* the targetH that handle computes and does not pass on
ResvgArgs(svg) ==
    [svg |-> svg,
     fitTo |-> [mode |-> "width", value |-> TargetSize(svg.width, svg.height).w],
     background |-> "transparent",
     targetH |-> TargetSize(svg.width, svg.height).h]

\* initWasm resolves; handle runs on to its return (lines 275-306)
Rasterize(r, outcome) ==
    /\ phase[r] = "initWasm"
    /\ wasmReady' = TRUE
    /\ \E args \in {ResvgArgs(gen[r][1].svg)} :
           /\ raster' = [raster EXCEPT ![r] = <<args>>]
           /\ resp' = [resp EXCEPT ![r] =
                         IF outcome = "ok"
                         THEN <<[headers |-> PngHeaders, body |-> PngBody(args)]>>
                         ELSE <<Fallback(args.svg)>>]
    /\ phase' = [phase EXCEPT ![r] = "done"]
    /\ trace' = [trace EXCEPT ![r] =
                   @ \o <<"initWasm resolves">> \o RasterCalls(outcome) \o <<"Response">>]
    /\ UNCHANGED <<clock, query, gen, probe>>

\* one call of handle, for any query
Next ==
    \/ Tick
    \/ \E q \in Queries : Receive(1, q)
    \/ Generate(1)
    \/ InitWasmRejects(1)
    \/ \E o \in Outcomes : Rasterize(1, o)

Spec == Init /\ [][Next]_vars

\* two calls of handle in one worker instance, interleaved at their awaits
NextPair ==
    \/ Tick
    \/ \E r \in Slots :
         \/ \E q \in PairQueries : Receive(r, q)
         \/ Generate(r)
         \/ InitWasmRejects(r)
         \/ \E o \in Outcomes : Rasterize(r, o)

SpecPair == Init /\ [][NextPair]_vars

(***************************************************************************)
(* Properties of one call of handle (specification Spec).                  *)
(***************************************************************************)
\* the slots whose generation has run, whose rasterizer has been called, and
\* which have returned
Generated == {r \in Slots : gen[r] # <<>>}
Rasterized == {r \in Slots : raster[r] # <<>>}
Returned == {r \in Slots : resp[r] # <<>>}

\* the resolution and the output type in force when the query gives none
ResolutionOf(q) == IF q.resolution = NoValue THEN "native" ELSE q.resolution
TypeOf(q) == IF q.type = NoValue THEN "svg" ELSE q.type

\* the internal size of a size class, as the specification tabulates it
InternalSize(size) ==
    CASE size = "16:9" -> <<1600, 900>>
      [] size = "9:16" -> <<900, 1600>>
      [] size = "1:1"  -> <<1000, 1000>>

\* the declared output size of a resolution and a size class, as tabulated
DeclaredSize(resolution, size) ==
    CASE resolution = "native" -> InternalSize(size)
      [] resolution = "2k" ->
           (CASE size = "16:9" -> <<2560, 1440>>
              [] size = "9:16" -> <<1440, 2560>>
              [] size = "1:1"  -> <<2048, 2048>>)
      [] resolution = "4k" ->
           (CASE size = "16:9" -> <<3840, 2160>>
              [] size = "9:16" -> <<2160, 3840>>
              [] size = "1:1"  -> <<3840, 3840>>)
      [] resolution = "8k" ->
           (CASE size = "16:9" -> <<7680, 4320>>
              [] size = "9:16" -> <<4320, 7680>>
              [] size = "1:1"  -> <<7680, 7680>>)

\* C4: in every document built, the viewBox is "0 0 W H" with (W, H) the
\* internal size of the size class alone, whatever the resolution, and the
\* width and height attributes are the tabulated size of (resolution, size).
C4_DimensionCorrectness ==
    \A r \in Generated :
        LET q == query[r][1]
            svg == gen[r][1].svg
        IN  /\ svg.viewBox = <<0, 0>> \o InternalSize(q.size)
            /\ <<svg.width, svg.height>> = DeclaredSize(ResolutionOf(q), q.size)

\* a portrait document declared at 4k over the internal 900 x 1600 space
C4_Witness ==
    /\ 1 \in Generated
    /\ query[1][1].size = "9:16"
    /\ query[1][1].resolution = "4k"
    /\ gen[1][1].svg.viewBox = <<0, 0, 900, 1600>>
    /\ gen[1][1].svg.width = 2160
    /\ gen[1][1].svg.height = 3840

Max(a, b) == IF a >= b THEN a ELSE b
Min(a, b) == IF a <= b THEN a ELSE b

\* C3: whenever the rasterizer is invoked, both target dimensions lie in
\* 1..4096; if a declared dimension exceeds 4096 the larger target
\* dimension is exactly 4096 and the smaller one is the floor of the
\* proportional value; otherwise the target is the declared size unchanged.
\* The width is what is passed on (fitTo), and 8k at 16:9 gives 4096 x 2304.
C3_ResolutionCap ==
    \A r \in Rasterized :
        LET q == query[r][1]
            out == DeclaredSize(ResolutionOf(q), q.size)
            tw == raster[r][1].fitTo.value
            th == raster[r][1].targetH
        IN  /\ tw \in 1..4096
            /\ th \in 1..4096
            /\ raster[r][1].fitTo.mode = "width"
            /\ IF Max(out[1], out[2]) > 4096
               THEN /\ Max(tw, th) = 4096
                    /\ (out[1] >= out[2]) = (tw >= th)
                    /\ Min(tw, th) * Max(out[1], out[2]) <= Min(out[1], out[2]) * 4096
                    /\ (Min(tw, th) + 1) * Max(out[1], out[2]) > Min(out[1], out[2]) * 4096
               ELSE <<tw, th>> = out
            /\ (q.size = "16:9" /\ q.resolution = "8k") => <<tw, th>> = <<4096, 2304>>

\* an 8k portrait request rasterized at 2304 x 4096
C3_Witness ==
    /\ 1 \in Rasterized
    /\ query[1][1].size = "9:16"
    /\ query[1][1].resolution = "8k"
    /\ gen[1][1].svg.height = 7680
    /\ raster[1][1].fitTo.value = 2304
    /\ raster[1][1].targetH = 4096

\* the calls that throw, and the calls of the rasterizer
Throws == {"initWasm throws", "Resvg throws", "render throws", "asPng throws"}
RasterizerCalls == {"initWasm", "initWasm resolves", "Resvg", "render", "asPng"} \cup Throws

Events(t) == {t[i] : i \in 1..Len(t)}
Count(t, e) == Cardinality({i \in 1..Len(t) : t[i] = e})
HeaderNames(response) == {h[1] : h \in response.headers}

\* C2: a png request in which initWasm, new Resvg, render or asPng throws
\* still returns a response: its Content-Type is image/svg+xml, it carries
\* X-Marble-PNG-Fallback: true, and its body is the SVG document generated
\* for the request.  No response of a successful rasterization and no
\* response of an svg request carries the marker header.
C2_PngFallback ==
    \A r \in Slots :
        /\ phase[r] = "done" => r \in Returned
        /\ r \in Returned =>
             IF Events(trace[r]) \cap Throws # {}
             THEN /\ TypeOf(query[r][1]) = "png"
                  /\ <<"Content-Type", "image/svg+xml">> \in resp[r][1].headers
                  /\ <<"X-Marble-PNG-Fallback", "true">> \in resp[r][1].headers
                  /\ resp[r][1].body = SvgBody(gen[r][1].svg)
             ELSE /\ "X-Marble-PNG-Fallback" \notin HeaderNames(resp[r][1])
                  /\ resp[r][1].body.type = TypeOf(query[r][1])

\* render has thrown and the call has returned the marked SVG document
C2_Witness ==
    /\ phase[1] = "done"
    /\ "render throws" \in Events(trace[1])
    /\ query[1][1].type = "png"
    /\ <<"X-Marble-PNG-Fallback", "true">> \in resp[1][1].headers
    /\ resp[1][1].body.type = "svg"
    /\ resp[1][1].body.svg = gen[1][1].svg

\* every b in t has an a before it
Precedes(t, a, b) ==
    \A j \in 1..Len(t) : t[j] = b => \E i \in 1..(j - 1) : t[i] = a

\* C7: in a png run the document is built before initWasm is called,
\* initWasm has resolved before Resvg and render are called, render is
\* called at most once, the response comes after render has returned or
\* thrown, and a throw is followed at once by the response (the fallback),
\* with no second call of the rasterizer.  An svg run never calls the
\* rasterizer.  A run that has ended has returned exactly one response, and
\* no run returns more than one.
C7_RasterizationOrder ==
    \A r \in Slots :
        LET t == trace[r]
        IN  /\ Precedes(t, "svg", "initWasm")
            /\ Precedes(t, "initWasm", "initWasm resolves")
            /\ Precedes(t, "initWasm resolves", "Resvg")
            /\ Precedes(t, "initWasm resolves", "render")
            /\ Precedes(t, "Resvg", "render")
            /\ Precedes(t, "render", "asPng")
            /\ Precedes(t, "svg", "Response")
            /\ \A e \in RasterizerCalls : Count(t, e) <= 1
            /\ \A j \in 1..Len(t) :
                   /\ t[j] \in Throws =>
                        /\ j + 1 = Len(t)
                        /\ t[j + 1] = "Response"
                        /\ "X-Marble-PNG-Fallback" \in HeaderNames(resp[r][1])
                   /\ t[j] = "Response" => j = Len(t)
                   /\ t[j] = "render" => j < Len(t)
            /\ Count(t, "Response") = (IF phase[r] = "done" THEN 1 ELSE 0)
            /\ (r \in Returned) = (phase[r] = "done")
            /\ (r \in Generated /\ TypeOf(query[r][1]) = "svg") =>
                   /\ Events(t) \cap RasterizerCalls = {}
                   /\ r \notin Rasterized
                   /\ phase[r] = "done"
            /\ (r \in Returned /\ TypeOf(query[r][1]) = "png") =>
                   "initWasm" \in Events(t)

\* a png run in which render threw, once, and the response followed
C7_Witness ==
    /\ phase[1] = "done"
    /\ trace[1] = <<"handle", "svg", "initWasm", "initWasm resolves", "Resvg",
                    "render", "render throws", "Response">>
    /\ wasmReady

\* the accumulator of the stream after k draws: seed + k * 0x6d2b79f5
RECURSIVE AccumulatorAfter(_, _)
AccumulatorAfter(seed, k) ==
    IF k = 0 THEN seed ELSE Mulberry32Advance(AccumulatorAfter(seed, k - 1))

\* C8: every run makes exactly 18 draws; the document's parameters are made
\* of the draws at fixed positions of the stream (1 base frequency, 2 octaves,
\* 3 noise seed, 4 rotation, 5 contrast, 6 and 7 the vein opacities, 8 pulse
\* count, 9 pulse width, 10 layer-1 vein octaves, 11-13 the gammas, 14 and 15
\* layer-1 scale and blur, 16 layer-2 vein octaves, 17 and 18 layer-2 scale
\* and blur), whatever the color, size, resolution, sharp flag and output
\* type; and the document is the same whatever the rotation drawn 4th is.
C8_DrawOrder ==
    \A r \in Generated :
        LET g == gen[r][1]
            q == query[r][1]
            u == g.stream
            svg == g.svg
        IN  /\ Len(u) = 18
            /\ g.rand.n = 18
            /\ g.rand.a = AccumulatorAfter(g.seed, 18)
            /\ svg.warpFreq = <<WarpFx(u[1]), WarpFy(u[1])>>
            /\ svg.veinFreq2 = <<VeinFx2(u[1]), VeinFy2(u[1])>>
            /\ svg.octaves = 3 + ScaleDraw(u[2], 3)
            /\ svg.warpSeed = ScaleDraw(u[3], 4096)
            /\ g.rotate = ScaleDraw(u[4], 360)
            /\ g.contrast = u[5]
            /\ svg.opacity1 = VeinOpacity1(q.color, u[6])
            /\ svg.opacity2 = VeinOpacity2(q.color, u[7])
            /\ svg.tableValues = TableValues(u[8], u[9])
            /\ svg.veinOctaves = 2 + ScaleDraw(u[10], 2)
            /\ svg.gamma = <<GammaExponent(u[11]), GammaExponent(u[12]),
                             GammaExponent(u[13])>>
            /\ svg.scale = MathRound(80, 160, u[14])
            /\ svg.blur = ToFixed(160, 160, u[15], {})
            /\ svg.veinOctaves2 = 2 + ScaleDraw(u[16], 2)
            /\ svg.scale2 = MathRound(110, 130, u[17])
            /\ svg.blur2 = ToFixed(140, 220, u[18], {16384, 49152})
            /\ \A rot \in {0, (g.rotate + 1) % 360} :
                   BuildSvg([Locals(g.draw, q.color) EXCEPT !.rotate = rot], g.draw,
                            q.color, q.size, ResolutionOf(q),
                            q.sharp = "true") = svg

\* a run for another color than black and white, rasterized, whose rotation
\* is not 0: 18 draws have been made
C8_Witness ==
    /\ 1 \in Generated
    /\ query[1][1].color = "blue"
    /\ query[1][1].type = "png"
    /\ query[1][1].sharp = "true"
    /\ gen[1][1].rotate > 0
    /\ gen[1][1].rand.n = 18
    /\ Len(gen[1][1].stream) = 18

\* the pulse count of a generation: 10 + Math.floor(rand() * 6) of its 8th draw
PulsesOf(g) == 10 + ScaleDraw(g.stream[8], 6)

\* the entries of the table that fall in period p of the phase (x * pulses) mod 1
\* over x = i / 63: those with floor(i * pulses / 63) = p
PeriodEntries(pulses, p) == {i \in 0..63 : (i * pulses) \div 63 = p}

\* C5: the table of every document has exactly 64 entries, each "0" or "1",
\* and in every one of the pulses periods of the phase at least one entry
\* is "1".
C5_TableShape ==
    \A r \in Generated :
        LET g == gen[r][1]
            t == g.svg.tableValues
        IN  /\ Len(t) = 64
            /\ \A j \in 1..Len(t) : t[j] \in {"0", "1"}
            /\ PulsesOf(g) \in 10..15
            /\ \A p \in 0..(PulsesOf(g) - 1) :
                   \E i \in PeriodEntries(PulsesOf(g), p) : t[i + 1] = "1"

\* the part of C5 that every table has: 64 entries, each "0" or "1", and a
\* pulse count in 10..15
C5_TableEntries ==
    \A r \in Generated :
        LET t == gen[r][1].svg.tableValues
        IN  /\ Len(t) = 64
            /\ \A j \in 1..Len(t) : t[j] \in {"0", "1"}
            /\ PulsesOf(gen[r][1]) \in 10..15

\* a table of 13 pulses whose periods 0, 5, 6, 7 and 12 hold no "1": the
\* request username=al, datetime=1970-01-01T00:00:00.001Z
C5_PeriodWithoutOn ==
    /\ 1 \in Generated
    /\ query[1][1].username = <<<<97, 108>>>>
    /\ query[1][1].datetime # <<>>
    /\ PulsesOf(gen[1][1]) = 13
    /\ \A p \in {0, 5, 6, 7, 12} :
           \A i \in PeriodEntries(13, p) : gen[1][1].svg.tableValues[i + 1] = "0"

(***************************************************************************)
(* Properties of two calls of handle in one worker (specification SpecPair) *)
(***************************************************************************)
\* the two queries carry the same parameters of the document
SameRequest(q1, q2) ==
    /\ q1.username = q2.username
    /\ q1.datetime = q2.datetime
    /\ q1.color = q2.color
    /\ q1.size = q2.size
    /\ q1.resolution = q2.resolution
    /\ q1.sharp = q2.sharp

\* C1: two requests with the same username, the same explicit datetime and
\* the same color, size, resolution and sharp flag get the same document:
\* the seed key is the username followed by the datetime's milliseconds,
\* and the key, the seed, every draw and the document are equal in both
\* runs, whenever each run is made (whatever the clock shows, whatever an
\* earlier request has left behind).
C1_Determinism ==
    \A r1 \in Generated : \A r2 \in Generated :
        (SameRequest(query[r1][1], query[r2][1]) /\ query[r1][1].datetime # <<>>) =>
            /\ gen[r1][1].seedStr =
                 SeedStr(query[r1][1].username, DateGetTime(query[r1][1].datetime[1]))
            /\ gen[r1][1].seedStr = gen[r2][1].seedStr
            /\ gen[r1][1].seed = gen[r2][1].seed
            /\ gen[r1][1].stream = gen[r2][1].stream
            /\ gen[r1][1].rand = gen[r2][1].rand
            /\ gen[r1][1].svg = gen[r2][1].svg

\* the same dated request made twice: the first call has come back from the
\* rasterizer, the clock has moved on, and the second call has built its
\* document
C1_Witness ==
    /\ Generated = {1, 2}
    /\ SameRequest(query[1][1], query[2][1])
    /\ query[1][1].datetime # <<>>
    /\ query[1][1].username # <<>>
    /\ query[1][1].type = "png"
    /\ phase[1] = "done"
    /\ wasmReady
    /\ clock = 1
    /\ trace[2] = <<"handle">> \o <<"svg", "Response">>
    /\ gen[1][1].svg = gen[2][1].svg

\* what the request q, whose timestamp is ts, produces when it runs alone:
\* the locals of its generation, and the responses it can return
AloneGeneration(q, ts) ==
    Compose[Run(Xmur3[SeedStr(q.username, ts)], Statements, Len(Statements)), q, ts]

AloneResponses(g) ==
    IF g.outType = "png"
    THEN {[headers |-> PngHeaders, body |-> PngBody(ResvgArgs(g.svg))],
          [headers |-> FallbackHeaders, body |-> SvgBody(g.svg)]}
    ELSE {[headers |-> SvgHeaders, body |-> SvgBody(g.svg)]}

DrawsWith(us) == [x \in Names |-> IF x \in DOMAIN us THEN us[x] ELSE <<0, 0>>]

\* draws for the gamma exponents: the ends of [0, 1), the middle, and the
\* draws on either side of 299/300
GammaDraws ==
    {<<0, 0>>, <<0, 1>>, <<21845, 21845>>, <<32768, 0>>, <<65317, 0>>,
     <<65318, 0>>, <<65535, 65535>>}

\* draws for the noise seed: the least draw of every value of
\* Math.floor(rand() * 4096), and the greatest draw
SeedDraws == {<<16 * n, 0>> : n \in 0..4095} \cup {<<65535, 65535>>}

InitDraws ==
    /\ clock = 0
    /\ wasmReady = FALSE
    /\ phase = [r \in Slots |-> "idle"]
    /\ query = [r \in Slots |-> <<>>]
    /\ gen = [r \in Slots |-> <<>>]
    /\ raster = [r \in Slots |-> <<>>]
    /\ resp = [r \in Slots |-> <<>>]
    /\ trace = [r \in Slots |-> <<>>]
    /\ probe \in
         {[draw |-> DrawsWith([gammaR |-> u[1], gammaG |-> u[2], gammaB |-> u[3]]),
           doc |-> <<>>] : u \in GammaDraws \X GammaDraws \X GammaDraws}
         \cup {[draw |-> DrawsWith([seedNoise |-> u]), doc |-> <<>>] : u \in SeedDraws}

\* the template is filled in (lines 176-269) with the locals made of the draws
FillTemplate(color) ==
    /\ probe.doc = <<>>
    /\ probe' = [probe EXCEPT !.doc =
                   <<BuildSvg(Locals(probe.draw, color), probe.draw, color, "1:1",
                              "native", FALSE)>>]
    /\ UNCHANGED <<clock, wasmReady, phase, query, gen, raster, resp, trace>>

NextDraws == \E color \in Colors : FillTemplate(color)

SpecDraws == InitDraws /\ [][NextDraws]_vars

\* the position of the call named name among the calls of rand()
Position(name) == CHOOSE k \in 1..Len(Statements) : Statements[k] = name

GammaNames == <<"gammaR", "gammaG", "gammaB">>

\* e is the two-decimal rounding of 2.2 + r * 1.5 for the draw u of r, in
\* units of 0.01: |e - (220 + 150 r)| <= 1/2
RoundsGammaOf(e, u) ==
    /\ 2 * e - 441 <= ScaleDraw(u, 300)
    /\ ScaleDraw(u, 300) <= 2 * e - 440

\* C9 as stated: each of the three exponents written lies in [2.2, 3.7)
C9_GammaBandHalfOpen ==
    probe.doc # <<>> =>
        \A i \in 1..3 : probe.doc[1].gamma[i] >= 220 /\ probe.doc[1].gamma[i] < 370

\* C9, amended: for every draw r, each of the three exponents written into
\* the contrast curve is 2.2 + r * 1.5 rounded to two decimals and lies in
\* the closed range [2.20, 3.70] (3.70 is written for the draws from about
\* 0.99667 on); the three come from three separate draws, which are made
\* one after the other (the 11th, 12th and 13th).
C9_GammaBand ==
    /\ \A i \in 1..3 : Position(GammaNames[i]) = 10 + i
    /\ probe.doc # <<>> =>
        \A i \in 1..3 :
            /\ probe.doc[1].gamma[i] \in 220..370
            /\ RoundsGammaOf(probe.doc[1].gamma[i], probe.draw[GammaNames[i]])

\* a document whose red exponent is written 3.70, its green one 2.20 and its
\* blue one 3.69, from three different draws
C9_Witness ==
    /\ probe.doc # <<>>
    /\ probe.draw["gammaR"] = <<65535, 65535>>
    /\ probe.draw["gammaG"] = <<0, 0>>
    /\ probe.draw["gammaB"] = <<65317, 0>>
    /\ probe.doc[1].gamma = <<370, 220, 369>>

\* C10: for every value s = floor(r * 4096) of the third draw, the seeds of
\* the four turbulences are s, (s + 137) mod 4096, (s + 251) mod 4096 and
\* (s + 587) mod 4096; they are integers of 0..4095 and no two are equal.
C10_DistinctSeeds ==
    probe.doc # <<>> =>
        LET s == probe.draw["seedNoise"][1] \div 16
            d == probe.doc[1]
            seeds == <<d.warpSeed, d.veinSeed, d.warpSeed2, d.veinSeed2>>
        IN  /\ seeds = <<s, (s + 137) % 4096, (s + 251) % 4096, (s + 587) % 4096>>
            /\ \A i \in 1..4 : seeds[i] \in 0..4095
            /\ \A i \in 1..4 : \A j \in 1..4 : i # j => seeds[i] # seeds[j]

\* the greatest noise seed: the three additions all wrap around
C10_Witness ==
    /\ probe.doc # <<>>
    /\ probe.draw["seedNoise"] = <<65535, 65535>>
    /\ probe.doc[1].warpSeed = 4095
    /\ probe.doc[1].veinSeed = 136
    /\ probe.doc[1].warpSeed2 = 250
    /\ probe.doc[1].veinSeed2 = 586
====
